---- MODULE Spec2Model ----
(***************************************************************************)
(* CodeShare playground (src/src/App.tsx): the share-link codec            *)
(* (encodeCode / decodeCode over JSON and LZString's URI-safe transport)   *)
(* and the App component's state (load from URL, debounced preview,        *)
(* view mode, link generation).                                            *)
(*                                                                         *)
(* A JavaScript string is a sequence of UTF-16 code units (integers).      *)
(* A token is a sequence of one-character strings.                         *)
(* A JavaScript value is a record [k, s, c]: k the kind ("undef", "null",  *)
(* "bool", "num", "str", "arr", "obj"), s its text (string contents, the   *)
(* number's or literal's text), c its members, each [key, val] (an array   *)
(* member has the empty key).                                              *)
(***************************************************************************)
EXTENDS Integers, Sequences, FiniteSets, TLC

\* ------------------------------------------------------------------ bounds
\* Longest total text (html + css + js, in code units) of a Document drawn
\* as an input of the codec.
MaxLen == 2

\* Most user events (clicks, edits, opening a link) in one run of the App.
MaxEvents == 3

\* ------------------------------------------------------- JavaScript values
Undefined == [k |-> "undef", s |-> <<>>, c |-> <<>>]
Null == [k |-> "null", s |-> <<>>, c |-> <<>>]
Str(s) == [k |-> "str", s |-> s, c |-> <<>>]

IsString(v) == v.k = "str"

\* the text "undefined", what string concatenation makes of undefined
UndefinedText == <<117, 110, 100, 101, 102, 105, 110, 101, 100>>

\* ToBoolean of a number literal's text: zero (0, -0, 0.0, 0e5) is falsy
RECURSIVE IsZeroText(_, _)
IsZeroText(s, i) ==
  IF i > Len(s) \/ s[i] \in {69, 101} THEN TRUE
  ELSE IF s[i] \in 49..57 THEN FALSE
  ELSE IsZeroText(s, i + 1)

\* ToBoolean, as `if (decoded)` and `if (!data)` apply it
Truthy(v) ==
  CASE v.k \in {"undef", "null"} -> FALSE
    [] v.k = "bool" -> v.s = <<116, 114, 117, 101>>
    [] v.k = "num" -> ~IsZeroText(v.s, 1)
    [] v.k = "str" -> v.s # <<>>
    [] OTHER -> TRUE

\* the place of the member named key (a key names one member at most), 0 if none
FindKey(members, key) ==
  IF \E i \in 1..Len(members) : members[i].key = key
  THEN CHOOSE i \in 1..Len(members) : members[i].key = key
  ELSE 0

\* property access v.key on a non-null value (decoded.html, decoded.css, decoded.js)
GetProp(v, key) ==
  IF v.k # "obj" THEN Undefined
  ELSE LET i == FindKey(v.c, key)
       IN IF i = 0 THEN Undefined ELSE v.c[i].val

KeyHtml == <<104, 116, 109, 108>>
KeyCss == <<99, 115, 115>>
KeyJs == <<106, 115>>

\* the object literal { html, css, js }
DocValue(html, css, js) ==
  [k |-> "obj", s |-> <<>>,
   c |-> << [key |-> KeyHtml, val |-> html],
            [key |-> KeyCss, val |-> css],
            [key |-> KeyJs, val |-> js] >>]

\* ------------------------------------------------------------ JSON.stringify
HexDigit(n) == IF n < 10 THEN 48 + n ELSE 87 + n

\* \uXXXX, four lowercase hex digits
UnicodeEscape(cu) ==
  <<92, 117, HexDigit(cu \div 4096), HexDigit((cu \div 256) % 16),
    HexDigit((cu \div 16) % 16), HexDigit(cu % 16)>>

IsHighSurrogate(cu) == cu \in 55296..56319
IsLowSurrogate(cu) == cu \in 56320..57343

\* QuoteJSONString, one code unit at position i of s
QuoteUnit(s, i) ==
  LET cu == s[i] IN
  CASE cu = 34 -> <<92, 34>>
    [] cu = 92 -> <<92, 92>>
    [] cu = 8 -> <<92, 98>>
    [] cu = 12 -> <<92, 102>>
    [] cu = 10 -> <<92, 110>>
    [] cu = 13 -> <<92, 114>>
    [] cu = 9 -> <<92, 116>>
    [] cu < 32 -> UnicodeEscape(cu)
    [] IsHighSurrogate(cu) ->
         IF i < Len(s) /\ IsLowSurrogate(s[i + 1]) THEN <<cu>> ELSE UnicodeEscape(cu)
    [] IsLowSurrogate(cu) ->
         IF i > 1 /\ IsHighSurrogate(s[i - 1]) THEN <<cu>> ELSE UnicodeEscape(cu)
    [] OTHER -> <<cu>>

\* the quoted code units lo..hi of s, one after the other
RECURSIVE QuoteUnits(_, _, _)
QuoteUnits(s, lo, hi) ==
  IF lo > hi THEN <<>>
  ELSE IF lo = hi THEN QuoteUnit(s, lo)
  ELSE QuoteUnits(s, lo, (lo + hi) \div 2) \o QuoteUnits(s, (lo + hi) \div 2 + 1, hi)

QuoteJSONString(s) == <<34>> \o QuoteUnits(s, 1, Len(s)) \o <<34>>

\* s1, s2, ... joined with commas
RECURSIVE JoinComma(_, _, _)
JoinComma(parts, lo, hi) ==
  IF lo > hi THEN <<>>
  ELSE IF lo = hi THEN parts[lo]
  ELSE JoinComma(parts, lo, (lo + hi) \div 2) \o <<44>>
         \o JoinComma(parts, (lo + hi) \div 2 + 1, hi)

\* SerializeJSONProperty: a number is written as it was read (the literals of
\* this model are in canonical form); an undefined property is left out, an
\* undefined array element is null
RECURSIVE JSON_stringify(_)
JSON_stringify(v) ==
  CASE v.k = "str" -> QuoteJSONString(v.s)
    [] v.k \in {"num", "bool"} -> v.s
    [] v.k \in {"null", "undef"} -> <<110, 117, 108, 108>>
    [] v.k = "arr" ->
         <<91>> \o JoinComma([i \in 1..Len(v.c) |-> JSON_stringify(v.c[i].val)],
                             1, Len(v.c)) \o <<93>>
    [] OTHER ->
         LET own == SelectSeq(v.c, LAMBDA m : m.val.k # "undef")
         IN <<123>>
            \o JoinComma([i \in 1..Len(own) |->
                            QuoteJSONString(own[i].key) \o <<58>>
                              \o JSON_stringify(own[i].val)],
                         1, Len(own))
            \o <<125>>

\* ---------------------------------------------------------------- JSON.parse
\* the code unit at position i, -1 past the end
At(s, i) == IF i >= 1 /\ i <= Len(s) THEN s[i] ELSE -1

ParseFail == [ok |-> FALSE, v |-> Null, i |-> 0]
ParseOk(v, i) == [ok |-> TRUE, v |-> v, i |-> i]

IsDigit(cu) == cu \in 48..57
IsHex(cu) == cu \in 48..57 \/ cu \in 65..70 \/ cu \in 97..102
HexVal(cu) == IF cu <= 57 THEN cu - 48 ELSE IF cu <= 70 THEN cu - 55 ELSE cu - 87

\* the first position from i on that holds no white space
SkipWs(s, i) ==
  CHOOSE j \in i..(Len(s) + 1) :
    /\ At(s, j) \notin {32, 9, 10, 13}
    /\ \A q \in i..(j - 1) : At(s, q) \in {32, 9, 10, 13}

\* the first position from i on that holds no digit
SkipDigits(s, i) ==
  CHOOSE j \in i..(Len(s) + 1) :
    /\ ~IsDigit(At(s, j))
    /\ \A q \in i..(j - 1) : IsDigit(At(s, q))

\* the position after the number that starts at i, 0 when there is none:
\* -? (0 | [1-9][0-9]*) (. [0-9]+)? ([eE] [+-]? [0-9]+)?
NumberEnd(s, i) ==
  LET a == IF At(s, i) = 45 THEN i + 1 ELSE i
      b == IF At(s, a) = 48 THEN a + 1
           ELSE IF At(s, a) \in 49..57 THEN SkipDigits(s, a + 1)
           ELSE 0
      d == IF b = 0 THEN 0
           ELSE IF At(s, b) # 46 THEN b
           ELSE IF IsDigit(At(s, b + 1)) THEN SkipDigits(s, b + 1)
           ELSE 0
      e == IF d = 0 THEN 0
           ELSE IF At(s, d) \notin {69, 101} THEN d
           ELSE LET g == IF At(s, d + 1) \in {43, 45} THEN d + 2 ELSE d + 1
                IN IF IsDigit(At(s, g)) THEN SkipDigits(s, g) ELSE 0
  IN e

\* one character or escape of a string body; st.i the position, st.acc what
\* was read, st.done once the closing quote or an error was met
StringStep(s, st) ==
  LET cu == At(s, st.i)
      more(n, u) == [st EXCEPT !.i = @ + n, !.acc = Append(@, u)]
      fail == [st EXCEPT !.done = TRUE, !.ok = FALSE]
  IN
  IF cu = -1 \/ (cu >= 0 /\ cu < 32) THEN fail
  ELSE IF cu = 34 THEN [st EXCEPT !.done = TRUE, !.i = @ + 1]
  ELSE IF cu # 92 THEN more(1, cu)
  ELSE LET e == At(s, st.i + 1) IN
       CASE e \in {34, 92, 47} -> more(2, e)
         [] e = 98 -> more(2, 8)
         [] e = 102 -> more(2, 12)
         [] e = 110 -> more(2, 10)
         [] e = 114 -> more(2, 13)
         [] e = 116 -> more(2, 9)
         [] e = 117 ->
              IF \A j \in 2..5 : IsHex(At(s, st.i + j))
              THEN more(6, HexVal(s[st.i + 2]) * 4096 + HexVal(s[st.i + 3]) * 256
                           + HexVal(s[st.i + 4]) * 16 + HexVal(s[st.i + 5]))
              ELSE fail
         [] OTHER -> fail

\* up to n steps of the string body, run as two halves
RECURSIVE StringLoop(_, _, _)
StringLoop(s, st, n) ==
  IF st.done \/ n = 0 THEN st
  ELSE IF n = 1 THEN StringStep(s, st)
  ELSE LET half == StringLoop(s, st, n \div 2)
       IN StringLoop(s, half, n - n \div 2)

\* the string whose body starts at position i (after the opening quote); a step
\* reads a character at least, so Len(s) - i + 2 steps reach the end of s
ParseString(s, i) ==
  LET st == StringLoop(s, [i |-> i, acc |-> <<>>, done |-> FALSE, ok |-> TRUE],
                       Len(s) - i + 2)
  IN IF st.done /\ st.ok THEN ParseOk(Str(st.acc), st.i) ELSE ParseFail

\* the literal word lit at position i
ParseLiteral(s, i, lit, kind) ==
  IF i + Len(lit) - 1 <= Len(s) /\ SubSeq(s, i, i + Len(lit) - 1) = lit
  THEN ParseOk([k |-> kind, s |-> IF kind = "null" THEN <<>> ELSE lit, c |-> <<>>],
               i + Len(lit))
  ELSE ParseFail

\* defining a property: a repeated key keeps its place and takes the new value
SetMember(members, key, val) ==
  LET i == FindKey(members, key) IN
  IF i = 0 THEN Append(members, [key |-> key, val |-> val])
  ELSE [members EXCEPT ![i].val = val]

RECURSIVE ParseValue(_, _)
RECURSIVE ParseElements(_, _, _)
RECURSIVE ParseMembers(_, _, _)

\* the elements of an array from position i (at the next element), acc those read
ParseElements(s, i, acc) ==
  LET r == ParseValue(s, SkipWs(s, i)) IN
  IF ~r.ok THEN ParseFail
  ELSE LET j == SkipWs(s, r.i)
           got == Append(acc, [key |-> <<>>, val |-> r.v])
       IN IF At(s, j) = 44 THEN ParseElements(s, j + 1, got)
          ELSE IF At(s, j) = 93 THEN ParseOk([k |-> "arr", s |-> <<>>, c |-> got], j + 1)
          ELSE ParseFail

\* the members of an object from position i (at the next key), acc those read
ParseMembers(s, i, acc) ==
  LET a == SkipWs(s, i) IN
  IF At(s, a) # 34 THEN ParseFail
  ELSE LET key == ParseString(s, a + 1) IN
       IF ~key.ok THEN ParseFail
       ELSE LET b == SkipWs(s, key.i) IN
            IF At(s, b) # 58 THEN ParseFail
            ELSE LET r == ParseValue(s, SkipWs(s, b + 1)) IN
                 IF ~r.ok THEN ParseFail
                 ELSE LET j == SkipWs(s, r.i)
                          got == SetMember(acc, key.v.s, r.v)
                      IN IF At(s, j) = 44 THEN ParseMembers(s, j + 1, got)
                         ELSE IF At(s, j) = 125
                              THEN ParseOk([k |-> "obj", s |-> <<>>, c |-> got], j + 1)
                         ELSE ParseFail

\* the value that starts at position i
ParseValue(s, i) ==
  LET cu == At(s, i) IN
  CASE cu = 123 ->
         IF At(s, SkipWs(s, i + 1)) = 125
         THEN ParseOk([k |-> "obj", s |-> <<>>, c |-> <<>>], SkipWs(s, i + 1) + 1)
         ELSE ParseMembers(s, i + 1, <<>>)
    [] cu = 91 ->
         IF At(s, SkipWs(s, i + 1)) = 93
         THEN ParseOk([k |-> "arr", s |-> <<>>, c |-> <<>>], SkipWs(s, i + 1) + 1)
         ELSE ParseElements(s, i + 1, <<>>)
    [] cu = 34 -> ParseString(s, i + 1)
    [] cu = 45 \/ IsDigit(cu) ->
         LET e == NumberEnd(s, i) IN
         IF e = 0 THEN ParseFail
         ELSE ParseOk([k |-> "num", s |-> SubSeq(s, i, e - 1), c |-> <<>>], e)
    [] cu = 116 -> ParseLiteral(s, i, <<116, 114, 117, 101>>, "bool")
    [] cu = 102 -> ParseLiteral(s, i, <<102, 97, 108, 115, 101>>, "bool")
    [] cu = 110 -> ParseLiteral(s, i, <<110, 117, 108, 108>>, "null")
    [] OTHER -> ParseFail

\* JSON.parse(text): the value, or threw (a SyntaxError)
JSON_parse(text) ==
  LET r == ParseValue(text, SkipWs(text, 1)) IN
  IF r.ok /\ SkipWs(text, r.i) = Len(text) + 1
  THEN [threw |-> FALSE, v |-> r.v]
  ELSE [threw |-> TRUE, v |-> Null]

\* ------------------------------------------------------------------ LZString
\* keyStrUriSafe: a token character is the alphabet's entry for a 6-bit value;
\* the last entry, "$", stands where base64 has its padding and is never written
keyStrUriSafe ==
  << "A", "B", "C", "D", "E", "F", "G", "H", "I", "J", "K", "L", "M",
     "N", "O", "P", "Q", "R", "S", "T", "U", "V", "W", "X", "Y", "Z",
     "a", "b", "c", "d", "e", "f", "g", "h", "i", "j", "k", "l", "m",
     "n", "o", "p", "q", "r", "s", "t", "u", "v", "w", "x", "y", "z",
     "0", "1", "2", "3", "4", "5", "6", "7", "8", "9", "+", "-", "$" >>

getCharFromInt(a) == keyStrUriSafe[a + 1]

\* the n low bits of value, lowest first, as the compressor writes them
EmitBits(value, n) == [i \in 1..n |-> (value \div (2 ^ (i - 1))) % 2]

\* context_enlargeIn--, and one more bit per code when it reaches 0
Enlarge(ctx) ==
  IF ctx.enlargeIn - 1 = 0
  THEN [ctx EXCEPT !.enlargeIn = 2 ^ ctx.numBits, !.numBits = @ + 1]
  ELSE [ctx EXCEPT !.enlargeIn = @ - 1]

\* the code of phrase p in context_dictionary (codes start at 3), 0 when absent
DictCode(dict, p) ==
  IF \E i \in 1..Len(dict) : dict[i] = p
  THEN (CHOOSE i \in 1..Len(dict) : dict[i] = p) + 2
  ELSE 0

\* write the code of context_w: a first occurrence of a character as a literal
\* (marker 0 and 8 bits, or marker 1 and 16 bits), else its dictionary code
ProduceW(ctx) ==
  IF ctx.w \in ctx.toCreate
  THEN LET cu == ctx.w[1]
           lit == IF cu < 256
                  THEN EmitBits(0, ctx.numBits) \o EmitBits(cu, 8)
                  ELSE EmitBits(1, ctx.numBits) \o EmitBits(cu, 16)
       IN Enlarge(Enlarge([ctx EXCEPT !.bits = @ \o lit,
                                      !.toCreate = @ \ {ctx.w}]))
  ELSE Enlarge([ctx EXCEPT !.bits = @ \o EmitBits(DictCode(ctx.dict, ctx.w),
                                                  ctx.numBits)])

\* one iteration of the compressor's loop, on character cu
CompressChar(ctx, cu) ==
  LET isNew == DictCode(ctx.dict, <<cu>>) = 0
      c1 == IF isNew
            THEN [ctx EXCEPT !.dict = Append(@, <<cu>>), !.toCreate = @ \cup {<<cu>>}]
            ELSE ctx
      wc == c1.w \o <<cu>>
  IN IF DictCode(c1.dict, wc) # 0
     THEN [c1 EXCEPT !.w = wc]
     ELSE LET c2 == ProduceW(c1)
          IN [c2 EXCEPT !.dict = Append(@, wc), !.w = <<cu>>]

\* the compressor's loop over the characters lo..hi of s (1-based), run as its
\* first half and then, from the context that half leaves (numBits never goes
\* below 2), its second half
RECURSIVE CompressLoop(_, _, _, _)
CompressLoop(s, lo, hi, ctx) ==
  IF lo > hi THEN ctx
  ELSE IF lo = hi THEN CompressChar(ctx, s[lo])
  ELSE LET mid == (lo + hi) \div 2
           half == CompressLoop(s, lo, mid, ctx)
       IN IF half.numBits >= 2 THEN CompressLoop(s, mid + 1, hi, half) ELSE half

\* 6 bits, highest first, to a character
PackChar(bits, k) ==
  getCharFromInt(bits[k] * 32 + bits[k + 1] * 16 + bits[k + 2] * 8
                 + bits[k + 3] * 4 + bits[k + 4] * 2 + bits[k + 5])

\* LZString._compress(uncompressed, 6, getCharFromInt): the codes of the phrases,
\* the end marker 2, then zero bits up to and including a whole last character
compress(uncompressed) ==
  LET ctx0 == [dict |-> <<>>, toCreate |-> {}, w |-> <<>>,
               enlargeIn |-> 2, numBits |-> 2, bits |-> <<>>]
      ctx1 == CompressLoop(uncompressed, 1, Len(uncompressed), ctx0)
      ctx2 == IF ctx1.w # <<>> THEN ProduceW(ctx1) ELSE ctx1
      body == ctx2.bits \o EmitBits(2, ctx2.numBits)
      n == Len(body) \div 6 + 1
      padded == body \o [i \in 1..(6 * n - Len(body)) |-> 0]
  IN [j \in 1..n |-> PackChar(padded, 6 * (j - 1) + 1)]

compressToEncodedURIComponent(input) == compress(input)

\* getBaseValue(keyStrUriSafe, character): the character's place in the alphabet,
\* -1 for undefined (a character that is not in it)
getBaseValue(character) ==
  IF \E a \in 0..64 : keyStrUriSafe[a + 1] = character
  THEN CHOOSE a \in 0..64 : keyStrUriSafe[a + 1] = character
  ELSE -1

\* getNextValue(index) = getBaseValue(keyStrUriSafe, input.charAt(index));
\* charAt past the end is "", which is not in the alphabet
getNextValue(input, index) ==
  IF index < Len(input) THEN getBaseValue(input[index + 1]) ELSE -1

\* data.val & data.position, position a power of 2: undefined counts as 0
BitAnd(val, position) ==
  IF val < 0 THEN 0 ELSE ((val \div position) % 2) * position

\* the decompressor's bit loop: bits are read highest first from each character
\* and assembled lowest first
RECURSIVE ReadLoop(_, _, _, _, _)
ReadLoop(input, data, maxpower, power, bits) ==
  IF power = maxpower THEN [bits |-> bits, data |-> data]
  ELSE LET resb == BitAnd(data.val, data.position)
           pos == data.position \div 2
           d1 == IF pos = 0
                 THEN [val |-> getNextValue(input, data.index), position |-> 32,
                       index |-> data.index + 1]
                 ELSE [data EXCEPT !.position = pos]
       IN ReadLoop(input, d1, maxpower, power * 2,
                   bits + (IF resb > 0 THEN 1 ELSE 0) * power)

ReadBits(input, data, n) == ReadLoop(input, data, 2 ^ n, 1, 0)

\* a phrase that is undefined (the first code was 3: no case of the switch)
NoPhrase == <<-1>>
PhraseText(w) == IF w = NoPhrase THEN UndefinedText ELSE w

Returned(s) == [kind |-> "str", s |-> s]
ReturnedNull == [kind |-> "null", s |-> <<>>]
Threw == [kind |-> "throw", s |-> <<>>]

\* one iteration of the decompressor's main loop; dictionary[i] is
\* st.dictionary[i - 2]; st.out is set once the loop has returned or thrown
DecompressStep(input, st) ==
  IF st.data.index > Len(input) THEN [st EXCEPT !.done = TRUE, !.out = Returned(<<>>)]
  ELSE
  LET code == ReadBits(input, st.data, st.numBits)
      dictSize == Len(st.dictionary) + 3
  IN IF code.bits = 2 THEN [st EXCEPT !.done = TRUE, !.out = Returned(st.result)]
     ELSE
     LET lit == IF code.bits = 0 THEN ReadBits(input, code.data, 8)
                ELSE ReadBits(input, code.data, 16)
         isLit == code.bits \in {0, 1}
         s1 == IF isLit
               THEN Enlarge([st EXCEPT !.dictionary = Append(@, <<lit.bits>>),
                                       !.data = lit.data])
               ELSE [st EXCEPT !.data = code.data]
         s2 == IF isLit
               THEN s1
               ELSE IF s1.enlargeIn = 0
                    THEN [s1 EXCEPT !.enlargeIn = 2 ^ s1.numBits, !.numBits = @ + 1]
                    ELSE s1
         c == IF isLit THEN dictSize ELSE code.bits
         size2 == Len(s2.dictionary) + 3
         known == c >= 3 /\ c < size2 /\ s2.dictionary[c - 2] # NoPhrase
     IN IF ~known /\ c # size2 THEN [st EXCEPT !.done = TRUE, !.out = ReturnedNull]
        ELSE IF ~known /\ st.w = NoPhrase THEN [st EXCEPT !.done = TRUE, !.out = Threw]
        ELSE
        LET entry == IF known THEN s2.dictionary[c - 2] ELSE st.w \o <<st.w[1]>>
        IN Enlarge([s2 EXCEPT
                     !.result = @ \o entry,
                     !.dictionary = Append(@, PhraseText(st.w) \o <<entry[1]>>),
                     !.w = entry])

\* while (true): up to n iterations, run as two halves; an iteration reads at
\* least 3 bits, so the loop has returned within 2 * input.length + 2 of them
RECURSIVE DecompressLoop(_, _, _)
DecompressLoop(input, st, n) ==
  IF st.done \/ n = 0 THEN st
  ELSE IF n = 1 THEN DecompressStep(input, st)
  ELSE LET half == DecompressLoop(input, st, n \div 2)
       IN DecompressLoop(input, half, n - n \div 2)

\* LZString._decompress(input.length, 32, getNextValue)
decompress(input) ==
  LET data0 == [val |-> getNextValue(input, 0), position |-> 32, index |-> 1]
      next == ReadBits(input, data0, 2)
  IN IF next.bits = 2 THEN Returned(<<>>)
     ELSE
     LET lit == IF next.bits = 0 THEN ReadBits(input, next.data, 8)
                ELSE IF next.bits = 1 THEN ReadBits(input, next.data, 16)
                ELSE [bits |-> -1, data |-> next.data]
         c == IF next.bits = 3 THEN NoPhrase ELSE <<lit.bits>>
     IN DecompressLoop(input,
          [dictionary |-> <<c>>, enlargeIn |-> 4, numBits |-> 3, w |-> c,
           result |-> IF c = NoPhrase THEN <<>> ELSE c, data |-> lit.data,
           done |-> FALSE, out |-> ReturnedNull],
          2 * Len(input) + 2).out

\* input.replace(/ /g, "+")
SpacesToPlus(input) == [i \in 1..Len(input) |-> IF input[i] = " " THEN "+" ELSE input[i]]

decompressFromEncodedURIComponent(input) ==
  IF input = <<>> THEN ReturnedNull ELSE decompress(SpacesToPlus(input))

\* ------------------------------------------------- encodeCode and decodeCode
\* LZString.compressToBase64 in place of compressToEncodedURIComponent: "/" for
\* "-", and "=" up to a multiple of 4 characters
encodeCode_Base64(html, css, js) ==
  LET uri == compressToEncodedURIComponent(JSON_stringify(DocValue(html, css, js)))
      b64 == [i \in 1..Len(uri) |-> IF uri[i] = "-" THEN "/" ELSE uri[i]]
  IN b64 \o [i \in 1..((4 - (Len(uri) % 4)) % 4) |-> "="]

\* { html, css: js, js: css }: two fields change places
encodeCode_Swapped(html, css, js) ==
  compressToEncodedURIComponent(JSON_stringify(DocValue(html, js, css)))

encodeCode(html, css, js) ==
  compressToEncodedURIComponent(JSON_stringify(DocValue(html, css, js)))

\* the value returned: Null for `return null`, else whatever JSON.parse made
decodeCode(encoded) ==
  LET data == decompressFromEncodedURIComponent(encoded) IN
  IF data.kind = "throw" THEN Null
  ELSE IF data.kind = "null" \/ data.s = <<>> THEN Null
  ELSE LET parsed == JSON_parse(data.s) IN
       IF parsed.threw THEN Null ELSE parsed.v

\* --------------------------------------------------------------------- inputs
\* The characters texts are made of: quote, backslash, newline, closing brace,
\* a letter, an Arabic letter (right-to-left, above 255) and the two halves of
\* the emoji U+1F44B (each alone is a lone surrogate).
Chars == {34, 92, 10, 125, 97, 1605, 55357, 56395}

RECURSIVE TextsOfLen(_)
TextsOfLen(n) ==
  IF n = 0 THEN {<<>>}
  ELSE {Append(s, cu) : s \in TextsOfLen(n - 1), cu \in Chars}

Texts == UNION {TextsOfLen(n) : n \in 0..MaxLen}

\* Document{<p>hi</p>, p{color:red}, console.log(1)}
ScenarioDoc ==
  [html |-> <<60, 112, 62, 104, 105, 60, 47, 112, 62>>,
   css |-> <<112, 123, 99, 111, 108, 111, 114, 58, 114, 101, 100, 125>>,
   js |-> <<99, 111, 110, 115, 111, 108, 101, 46, 108, 111, 103, 40, 49, 41>>]

Docs ==
  {d \in [html : Texts, css : Texts, js : Texts] :
     Len(d.html) + Len(d.css) + Len(d.js) <= MaxLen}
    \cup {ScenarioDoc}

\* characters that are not in the token alphabet
IllegalChars == {"!", " "}

\* payloads that are JSON but no Document, and one that is not JSON
ForeignPayloads ==
  { <<49>>,                                                  \* 1
    <<48>>,                                                  \* 0
    <<91, 93>>,                                              \* []
    <<34, 120, 34>>,                                         \* "x"
    <<110, 117, 108, 108>>,                                  \* null
    <<116, 114, 117, 101>>,                                  \* true
    <<123, 34, 104, 116, 109, 108, 34, 58, 34, 97, 34, 125>>,  \* {"html":"a"}
    <<123, 34, 104, 116, 109, 108, 34, 58, 49, 44, 34, 99, 115, 115, 34, 58,
      34, 34, 44, 34, 106, 115, 34, 58, 34, 34, 125>>,       \* {"html":1,"css":"","js":""}
    <<123, 34, 104, 116, 109, 108, 34, 58>> }                \* {"html":

\* tokens no compressor wrote
RawTokens == { <<>>, <<"A">>, <<"Q">>, <<"w">>, <<"w", "A", "A">>, <<"!">> }

\* ------------------------------------------------------------------ the App
\* The three default texts, abbreviated to a few of their characters.
DEFAULT_HTML == Str(<<60, 1605>>)
DEFAULT_CSS == Str(<<42, 123>>)
DEFAULT_JS == Str(<<102, 96>>)

\* String(v), as a template literal converts a value
RECURSIVE StringOf(_)
StringOf(v) ==
  CASE v.k = "str" -> v.s
    [] v.k = "undef" -> UndefinedText
    [] v.k = "null" -> <<110, 117, 108, 108>>
    [] v.k \in {"num", "bool"} -> v.s
    [] v.k = "arr" ->
         JoinComma([i \in 1..Len(v.c) |->
                      IF v.c[i].val.k \in {"null", "undef"} THEN <<>>
                      ELSE StringOf(v.c[i].val)],
                   1, Len(v.c))
    [] OTHER -> <<91, 111, 98, 106, 101, 99, 116, 32, 79, 98, 106, 101, 99, 116, 93>>

\* getSrcDoc(): the template's fixed parts and the three texts between them
getSrcDoc(h, c, j) ==
  << "<!DOCTYPE html>\n<html lang=\"ar\" dir=\"rtl\">\n<head>\n  <meta charset=\"UTF-8\">\n  <meta name=\"viewport\" content=\"width=device-width, initial-scale=1.0\">\n  <style>",
     StringOf(c),
     "</style>\n</head>\n<body>\n  ",
     StringOf(h),
     "\n  <script>",
     StringOf(j),
     "</script>\n</body>\n</html>" >>

\* texts typed into the editor
TypedTexts == {<<97>>, <<34, 92>>}

\* Documents whose links arrive from elsewhere
SharedDocs ==
  { [html |-> <<>>, css |-> <<>>, js |-> <<>>],
    [html |-> <<34, 92>>, css |-> <<10>>, js |-> <<55357, 56395>>] }

ViewPrefix == <<"v", "i", "e", "w", "/">>

\* window.location.origin + window.location.pathname (no "#" in either)
LocationBase == <<"o", "/">>

\* the fragments (window.location.hash.slice(1)) a page may be opened with
ArrivingTokens ==
  RawTokens \cup {compress(p) : p \in ForeignPayloads}
    \cup {encodeCode(Str(d.html), Str(d.css), Str(d.js)) : d \in SharedDocs}

InitialFragments ==
  {<<>>} \cup ArrivingTokens \cup {ViewPrefix \o f : f \in ArrivingTokens}

VARIABLES
  hash,           \* window.location.hash.slice(1) of the page
  phase,          \* "unmounted", "mounted", or "crashed" (a render threw)
  html, css, js,  \* the three useState values (JavaScript values)
  activeTab, viewMode, layout, generatedLink, showLinkModal,
  iframe,         \* srcdoc of the iframe iframeRef points at, <<>> if never set
  timers,         \* the contents the pending preview timers will write
  last,           \* the operation that ran last
  events,         \* user events so far
  linkSource,     \* what the last generateLink encoded, and its viewOnly
  fromLink,       \* the page was opened from a generated link
  leftPreview,    \* this App has been in preview mode and left it
  typed,          \* the val of the last setCurrentCode(val), <<>> before any
  doc, token, input, result, op   \* the codec alone: see InitCodec

appVars ==
  <<hash, phase, html, css, js, activeTab, viewMode, layout, generatedLink,
    showLinkModal, iframe, timers, last, events, linkSource, fromLink,
    leftPreview, typed>>
codecVars == <<doc, token, input, result, op>>
vars == <<appVars, codecVars>>

NoDoc == [html |-> <<>>, css |-> <<>>, js |-> <<>>]
NoLink == [html |-> Undefined, css |-> Undefined, js |-> Undefined, viewOnly |-> FALSE]

\* the state of a page before the component mounts: the useState initial values
Constructed ==
  /\ phase = "unmounted"
  /\ html = DEFAULT_HTML
  /\ css = DEFAULT_CSS
  /\ js = DEFAULT_JS
  /\ activeTab = "html"
  /\ viewMode = "both"
  /\ layout = "vertical"
  /\ generatedLink = <<>>
  /\ showLinkModal = FALSE
  /\ iframe = <<>>
  /\ timers = {}
  /\ leftPreview = FALSE
  /\ typed = <<>>

CodecIdle ==
  /\ doc = NoDoc
  /\ token = <<>>
  /\ input = <<>>
  /\ result = Null
  /\ op = "idle"

Init ==
  /\ hash \in InitialFragments
  /\ Constructed
  /\ last = "none"
  /\ events = 0
  /\ linkSource = NoLink
  /\ fromLink = FALSE
  /\ CodecIdle

\* hash.startsWith("view/")
StartsWithView(h) == Len(h) >= 5 /\ SubSeq(h, 1, 5) = ViewPrefix

\* getCurrentCode()
getCurrentCode(tab, h, c, j) ==
  IF tab = "html" THEN h ELSE IF tab = "css" THEN c ELSE j

\* the editor render reads getCurrentCode().length and .split("\n"): it throws
\* unless the current code is a string; the preview render does not read it
RenderThrows(mode, tab, h, c, j) ==
  mode # "preview" /\ ~IsString(getCurrentCode(tab, h, c, j))

\* the preview effect after a render: when getSrcDoc changed, its cleanup clears
\* the pending timer and a new one is set; an uncaught render error unmounts
\* the tree, which clears the timer and drops the iframe
AfterRender(mode, tab, h, c, j, keepFrame) ==
  IF RenderThrows(mode, tab, h, c, j)
  THEN /\ phase' = "crashed"
       /\ timers' = {}
       /\ iframe' = <<>>
  ELSE /\ phase' = "mounted"
       /\ timers' = IF <<h, c, j>> = <<html, css, js>> /\ phase = "mounted"
                    THEN timers
                    ELSE {getSrcDoc(h, c, j)}
       /\ iframe' = IF keepFrame THEN iframe ELSE <<>>

\* hash.slice(4): the "/" of "view/" stays on the token
EncodedPart_Slice4(h) == IF StartsWithView(h) THEN SubSeq(h, 5, Len(h)) ELSE h

\* the token of a fragment: hash.slice(5) after "view/", else the hash
EncodedPart(h) == IF StartsWithView(h) THEN SubSeq(h, 6, Len(h)) ELSE h

\* mount: the load-from-URL effect and the first preview effect
Mount ==
  /\ phase = "unmounted"
  /\ \E decoded \in {decodeCode(EncodedPart(hash))} :
     \E loaded \in {hash # <<>> /\ Truthy(decoded)} :
     \E h \in {IF loaded THEN GetProp(decoded, KeyHtml) ELSE html},
        c \in {IF loaded THEN GetProp(decoded, KeyCss) ELSE css},
        j \in {IF loaded THEN GetProp(decoded, KeyJs) ELSE js},
        mode \in {IF loaded /\ StartsWithView(hash) THEN "preview" ELSE viewMode} :
       /\ html' = h
       /\ css' = c
       /\ js' = j
       /\ viewMode' = mode
       /\ AfterRender(mode, activeTab, h, c, j, FALSE)
  /\ last' = "Mount"
  /\ UNCHANGED <<hash, activeTab, layout, generatedLink, showLinkModal, events,
                 linkSource, fromLink, leftPreview, typed, codecVars>>

\* a user event on the mounted editor (the preview-mode render has none of the
\* editor's controls)
UserEvent(name) ==
  /\ phase = "mounted"
  /\ events < MaxEvents
  /\ events' = events + 1
  /\ last' = name
  /\ UNCHANGED <<hash, fromLink, codecVars>>

InEditor == viewMode # "preview"

\* the css branch calls setJs(val): the edit of the css tab lands in js
setCurrentCode_CssIntoJs(val) ==
  /\ UserEvent("setCurrentCode")
  /\ InEditor
  /\ \E h \in {IF activeTab = "html" THEN Str(val) ELSE html},
        j \in {IF activeTab # "html" THEN Str(val) ELSE js} :
       /\ html' = h
       /\ css' = css
       /\ js' = j
       /\ AfterRender(viewMode, activeTab, h, css, j, TRUE)
  /\ typed' = val
  /\ UNCHANGED <<activeTab, viewMode, layout, generatedLink, showLinkModal,
                 linkSource, leftPreview>>

\* setCurrentCode(val), from the textarea's onChange
setCurrentCode(val) ==
  /\ UserEvent("setCurrentCode")
  /\ InEditor
  /\ \E h \in {IF activeTab = "html" THEN Str(val) ELSE html},
        c \in {IF activeTab = "css" THEN Str(val) ELSE css},
        j \in {IF activeTab \notin {"html", "css"} THEN Str(val) ELSE js} :
       /\ html' = h
       /\ css' = c
       /\ js' = j
       /\ AfterRender(viewMode, activeTab, h, c, j, TRUE)
  /\ typed' = val
  /\ UNCHANGED <<activeTab, viewMode, layout, generatedLink, showLinkModal,
                 linkSource, leftPreview>>

clearAll ==
  /\ UserEvent("clearAll")
  /\ InEditor
  /\ html' = Str(<<>>)
  /\ css' = Str(<<>>)
  /\ js' = Str(<<>>)
  /\ AfterRender(viewMode, activeTab, Str(<<>>), Str(<<>>), Str(<<>>), TRUE)
  /\ UNCHANGED <<activeTab, viewMode, layout, generatedLink, showLinkModal,
                 linkSource, leftPreview, typed>>

\* a click on a tab
setActiveTab(tab) ==
  /\ UserEvent("setActiveTab")
  /\ InEditor
  /\ activeTab' = tab
  /\ AfterRender(viewMode, tab, html, css, js, TRUE)
  /\ UNCHANGED <<html, css, js, viewMode, layout, generatedLink, showLinkModal,
                 linkSource, leftPreview, typed>>

\* a click on a layout button
setLayout(l) ==
  /\ UserEvent("setLayout")
  /\ InEditor
  /\ layout' = l
  /\ UNCHANGED <<phase, html, css, js, activeTab, viewMode, generatedLink,
                 showLinkModal, iframe, timers, linkSource, leftPreview, typed>>

generateLink(viewOnly) ==
  /\ UserEvent("generateLink")
  /\ InEditor
  /\ LET encoded == encodeCode(html, css, js)
         prefix == IF viewOnly THEN <<"#">> \o ViewPrefix ELSE <<"#">>
     IN generatedLink' = LocationBase \o prefix \o encoded
  /\ showLinkModal' = TRUE
  /\ linkSource' = [html |-> html, css |-> css, js |-> js, viewOnly |-> viewOnly]
  /\ UNCHANGED <<phase, html, css, js, activeTab, viewMode, layout, iframe,
                 timers, leftPreview, typed>>

\* closing the link modal
closeLinkModal ==
  /\ UserEvent("closeLinkModal")
  /\ InEditor
  /\ showLinkModal
  /\ showLinkModal' = FALSE
  /\ UNCHANGED <<phase, html, css, js, activeTab, viewMode, layout,
                 generatedLink, iframe, timers, linkSource, leftPreview, typed>>

\* setViewMode("editor") in place of setViewMode("both")
openEditor_Editor ==
  /\ UserEvent("openEditor")
  /\ viewMode = "preview"
  /\ viewMode' = "editor"
  /\ leftPreview' = TRUE
  /\ AfterRender("editor", activeTab, html, css, js, FALSE)
  /\ UNCHANGED <<html, css, js, activeTab, layout, generatedLink, showLinkModal,
                 linkSource, typed>>

\* the open-editor button of preview mode: setViewMode("both"); the editor
\* render mounts another iframe element, and getSrcDoc has not changed
openEditor ==
  /\ UserEvent("openEditor")
  /\ viewMode = "preview"
  /\ viewMode' = "both"
  /\ leftPreview' = TRUE
  /\ AfterRender("both", activeTab, html, css, js, FALSE)
  /\ UNCHANGED <<html, css, js, activeTab, layout, generatedLink, showLinkModal,
                 linkSource, typed>>

\* the refresh button of the preview panel
refreshPreview ==
  /\ UserEvent("refreshPreview")
  /\ InEditor
  /\ iframe' = getSrcDoc(html, css, js)
  /\ UNCHANGED <<phase, html, css, js, activeTab, viewMode, layout,
                 generatedLink, showLinkModal, timers, linkSource, leftPreview,
                 typed>>

\* 400 ms after it was set, a pending timer writes the iframe
timerFires ==
  /\ phase = "mounted"
  /\ \E content \in timers :
       /\ iframe' = content
       /\ timers' = timers \ {content}
  /\ last' = "timerFires"
  /\ UNCHANGED <<hash, phase, html, css, js, activeTab, viewMode, layout,
                 generatedLink, showLinkModal, events, linkSource, fromLink,
                 leftPreview, typed, codecVars>>

\* the text after the first "#" of a link
Fragment(link) ==
  LET at == CHOOSE i \in 1..Len(link) :
              link[i] = "#" /\ \A q \in 1..(i - 1) : link[q] # "#"
  IN SubSeq(link, at + 1, Len(link))

\* the generated link is opened: a new page, whose App starts from its
\* initial state
openLink ==
  /\ phase = "mounted"
  /\ events < MaxEvents
  /\ generatedLink # <<>>
  /\ hash' = Fragment(generatedLink)
  /\ phase' = "unmounted"
  /\ html' = DEFAULT_HTML
  /\ css' = DEFAULT_CSS
  /\ js' = DEFAULT_JS
  /\ activeTab' = "html"
  /\ viewMode' = "both"
  /\ layout' = "vertical"
  /\ generatedLink' = <<>>
  /\ showLinkModal' = FALSE
  /\ iframe' = <<>>
  /\ timers' = {}
  /\ leftPreview' = FALSE
  /\ typed' = <<>>
  /\ fromLink' = TRUE
  /\ events' = events + 1
  /\ last' = "openLink"
  /\ UNCHANGED <<linkSource, codecVars>>

Next ==
  \/ Mount
  \/ \E val \in TypedTexts : setCurrentCode(val)
  \/ clearAll
  \/ \E tab \in {"html", "css", "js"} : setActiveTab(tab)
  \/ \E l \in {"horizontal", "vertical"} : setLayout(l)
  \/ \E viewOnly \in BOOLEAN : generateLink(viewOnly)
  \/ closeLinkModal
  \/ openEditor
  \/ refreshPreview
  \/ timerFires
  \/ openLink

Spec == Init /\ [][Next]_vars

\* ------------------------------------------------------------ the codec alone
\* The App's variables rest while encodeCode and decodeCode are applied to
\* drawn inputs.
AppIdle ==
  /\ hash = <<>>
  /\ Constructed
  /\ last = "none"
  /\ events = 0
  /\ linkSource = NoLink
  /\ fromLink = FALSE

InitCodec ==
  /\ doc \in Docs
  /\ token = <<>>
  /\ input = <<>>
  /\ result = Null
  /\ op = "start"
  /\ AppIdle

\* encodeCode(d.html, d.css, d.js) -> T
Encode ==
  /\ op = "start"
  /\ token' = encodeCode(Str(doc.html), Str(doc.css), Str(doc.js))
  /\ op' = "encoded"
  /\ UNCHANGED <<doc, input, result, appVars>>

\* decodeCode(T)
DecodeToken ==
  /\ op = "encoded"
  /\ input' = token
  /\ result' = decodeCode(token)
  /\ op' = "decoded"
  /\ UNCHANGED <<doc, token, appVars>>

NextCodec ==
  \/ Encode
  \/ DecodeToken

SpecCodec == InitCodec /\ [][NextCodec]_vars

\* T with the character at one position replaced by an illegal character
FlippedInputs ==
  {[kind |-> "flipped", t |-> [token EXCEPT ![i] = c]] :
     i \in 1..Len(token), c \in IllegalChars}

\* T + "!"
TrailingInputs == {[kind |-> "trailing", t |-> Append(token, "!")]}

\* tokens that carry another payload, and tokens no compressor wrote
ForeignInputs ==
  {[kind |-> "foreign", t |-> t] :
     t \in RawTokens \cup {compress(p) : p \in ForeignPayloads}}

\* the strings decodeCode may be handed besides T itself
MalformedInputs ==
  IF op = "encoded" THEN FlippedInputs \cup TrailingInputs
  ELSE IF op = "start" THEN ForeignInputs
  ELSE {}

\* decodeCode(m.t)
DecodeMalformed ==
  /\ \E m \in MalformedInputs :
       /\ input' = m.t
       /\ result' = decodeCode(m.t)
       /\ op' = m.kind
  /\ UNCHANGED <<doc, token, appVars>>

NextMalformed ==
  \/ Encode
  \/ DecodeMalformed

SpecMalformed == InitCodec /\ [][NextMalformed]_vars

\* -------------------------------------------------------------------- claims
\* a complete Document: an object with exactly the fields html, css and js,
\* each a string
IsDocument(v) ==
  /\ v.k = "obj"
  /\ {v.c[i].key : i \in 1..Len(v.c)} = {KeyHtml, KeyCss, KeyJs}
  /\ \A i \in 1..Len(v.c) : IsString(v.c[i].val)

\* C1: decodeCode(encodeCode(html, css, js)) is a Document whose three fields
\* equal the inputs, code unit for code unit.
C1_RoundTrip ==
  op = "decoded" => result = DocValue(Str(doc.html), Str(doc.css), Str(doc.js))

\* a round trip of a Document that holds a quote and a backslash
C1_Witness ==
  op = "decoded" /\ doc.html = <<34>> /\ doc.js = <<92>> /\ IsDocument(result)

\* C2: a token with one character replaced by a character outside the token
\* alphabet decodes to the error value, never to a Document.
C2_FlipRejected == op = "flipped" => result = Null

\* C3: decodeCode(T + "!") is the error value, for every token T.
C3_TrailingRejected == op = "trailing" => result = Null

\* C4: decodeCode returns the error value or a complete Document, whatever the
\* input: never a number, an array, a string or an object that lacks a field.
C4_AllOrNothing ==
  op \in {"foreign", "flipped", "trailing"}
    => (result = Null \/ IsDocument(result))

\* C5: mounting with a fragment whose token does not decode to a Document
\* leaves html, css and js at their defaults and viewMode at "both", and the
\* render does not throw.
C5_LoadFailureKeepsDefaults ==
  (last = "Mount" /\ hash # <<>> /\ ~IsDocument(decodeCode(EncodedPart(hash))))
    => /\ html = DEFAULT_HTML
       /\ css = DEFAULT_CSS
       /\ js = DEFAULT_JS
       /\ viewMode = "both"
       /\ phase = "mounted"

\* the link was generated from three strings
LinkOfDocument ==
  IsString(linkSource.html) /\ IsString(linkSource.css) /\ IsString(linkSource.js)

\* C6: a page opened from a generated link holds the Document the link was
\* generated from, with or without the view/ prefix; viewMode is "preview"
\* with the prefix and "both" without it.
C6_ModeFlag ==
  (last = "Mount" /\ fromLink /\ LinkOfDocument)
    => /\ html = linkSource.html
       /\ css = linkSource.css
       /\ js = linkSource.js
       /\ viewMode = IF linkSource.viewOnly THEN "preview" ELSE "both"
       /\ phase = "mounted"

\* a preview link of an edited Document was opened
C6_Witness ==
  /\ last = "Mount"
  /\ fromLink
  /\ linkSource.viewOnly
  /\ linkSource.html = Str(<<34, 92>>)
  /\ viewMode = "preview"

\* letters, digits, "+" and "-": none needs percent-encoding after "#"
FragmentSafe ==
  { "A", "B", "C", "D", "E", "F", "G", "H", "I", "J", "K", "L", "M",
    "N", "O", "P", "Q", "R", "S", "T", "U", "V", "W", "X", "Y", "Z",
    "a", "b", "c", "d", "e", "f", "g", "h", "i", "j", "k", "l", "m",
    "n", "o", "p", "q", "r", "s", "t", "u", "v", "w", "x", "y", "z",
    "0", "1", "2", "3", "4", "5", "6", "7", "8", "9", "+", "-" }

\* C7: every character of encodeCode(html, css, js) is a letter, a digit, "+"
\* or "-"; the token holds no "#", "/", "%", "=" or white space.
C7_TokenAlphabet ==
  op # "start" => \A i \in 1..Len(token) : token[i] \in FragmentSafe

\* a token that holds "-", the character that stands where Base64 has "/"
C7_Witness ==
  /\ op = "encoded"
  /\ \E i \in 1..Len(token) : token[i] = "-"

\* C9: with no preview timer pending (400 ms have passed since the last change
\* of html, css or js), the iframe on display shows getSrcDoc() of the current
\* texts, also after the open-editor button; at most one timer is ever pending.
C9_PreviewFresh ==
  /\ Cardinality(timers) <= 1
  /\ (/\ phase = "mounted"
      /\ timers = {}
      /\ IsString(html) /\ IsString(css) /\ IsString(js))
       => iframe = getSrcDoc(html, css, js)

C11_EditFrame ==
  [][/\ last' = "setCurrentCode"
          => /\ html' = IF activeTab = "html" THEN Str(typed') ELSE html
             /\ css' = IF activeTab = "css" THEN Str(typed') ELSE css
             /\ js' = IF activeTab = "js" THEN Str(typed') ELSE js
             /\ activeTab' = activeTab
             /\ viewMode' = viewMode
             /\ layout' = layout
             /\ generatedLink' = generatedLink
             /\ getCurrentCode(activeTab', html', css', js') = Str(typed')
     /\ last' = "setActiveTab"
          => (html' = html /\ css' = css /\ js' = js)]_vars

\* an edit made after a link was generated and its modal closed: the link
\* stays as it was and no longer matches the html field
C11_Witness ==
  /\ last = "setCurrentCode"
  /\ generatedLink # <<>>
  /\ ~showLinkModal
  /\ html = Str(typed)
  /\ linkSource.html # html

====
